---- MODULE Spec2Model ----
(***************************************************************************)
(* CPU PM domains (drivers/base/power/cpu_domains.c, the revision with the *)
(* per-domain cpumask and the cpu_pd_gov governor).                        *)
(*                                                                         *)
(* The model covers the registry of CPU PM domains (of_cpu_pd_list), the   *)
(* hierarchy build (of_get_cpu_domain / of_init_cpu_pm_domain), the CPU    *)
(* attach with its upward membership walk (cpu_pd_attach_cpu) and the      *)
(* governor callback cpu_pd_down_ok.                                       *)
(*                                                                         *)
(* Numbers.  Times are nanoseconds.  Three magnitudes occur in the code:   *)
(* ordinary values, the KTIME_SEC_MAX sentinel (about 2^63) and u64 values *)
(* that wrapped around 2^64.  A time is therefore written as a triple      *)
(* <<w, k, n>> standing for  w * 2^64 + k * KTIME_SEC_MAX * NSEC_PER_SEC   *)
(* + n, with n an ordinary integer; triples compare lexicographically,     *)
(* which is the numeric order as long as |n| is far below 2^63.            *)
(***************************************************************************)
EXTENDS Integers, Sequences, FiniteSets, TLC

\* ------------------------------------------------------------------ bounds
NumCpus == 2
MaxDomains == 3

CPUS == 0 .. (NumCpus - 1)
Nodes == {1, 2, 3}
NoNode == 0
NULL == 0

\* ------------------------------------------------------- program constants
NSEC_PER_USEC == 1000
ENOENT == 2
ENOMEM == 12
ENODEV == 19
EINVAL == 22

\* ------------------------------------------------------------- wide values
Small(n) == <<0, 0, n>>
\* ktime_set(KTIME_SEC_MAX, 0)
KTIME_SEC_MAX_NS == <<0, 1, 0>>
\* KTIME_MAX = 2^63 - 1 = KTIME_SEC_MAX * NSEC_PER_SEC + 854775807
KTIME_MAX == <<0, 1, 854775807>>

WideLt(a, b) ==
    \/ a[1] < b[1]
    \/ a[1] = b[1] /\ a[2] < b[2]
    \/ a[1] = b[1] /\ a[2] = b[2] /\ a[3] < b[3]

WideGt(a, b) == WideLt(b, a)

\* ktime_sub(lhs, rhs) with an ordinary rhs: s64 subtraction, no overflow in range
ktime_sub(lhs, rhs) == <<lhs[1], lhs[2], lhs[3] - rhs>>

\* assignment of an s64 to a u64: a negative value becomes 2^64 + value
ToU64(v) == IF v[1] = 0 /\ v[2] = 0 /\ v[3] < 0 THEN <<1, 0, v[3]>> ELSE v

\* ------------------------------------------------------------- idle states
\* struct genpd_power_state: the three latencies of one idle state and its param
IdleState(off, on, res, par) ==
    [power_off_latency_ns |-> off, power_on_latency_ns |-> on,
     residency_ns |-> res, param |-> par]

S10 == IdleState(2000, 3000, 5000, 7)
S30 == IdleState(5000, 10000, 15000, 8)
S100 == IdleState(20000, 30000, 50000, 9)

StateTables == { <<>>, <<S100>>, <<S10, S30, S100>>, <<S100, S10>> }

\* state_sleep_ns of the scan (lines 142-144)
state_sleep_ns_no_residency(st) ==
    st.power_off_latency_ns + st.power_on_latency_ns

state_sleep_ns(st) ==
    st.power_off_latency_ns + st.power_on_latency_ns + st.residency_ns

\* The scan of cpu_pd_down_ok from index i downwards: the value of i when the
\* loop ends (-1 when it ran out of states).  states is 1-based here, so
\* index i of the code is states[i + 1].
RECURSIVE ScanFromStopVetoes(_, _, _, _)
ScanFromStopVetoes(states, i, sleep_ns, qos_ns) ==
    IF i < 0 THEN -1
    ELSE LET s == Small(state_sleep_ns(states[i + 1])) IN
         IF WideGt(s, sleep_ns) THEN ScanFromStopVetoes(states, i - 1, sleep_ns, qos_ns)
         ELSE IF WideLt(s, Small(qos_ns * NSEC_PER_USEC))
              THEN -1
              ELSE i

RECURSIVE ScanFrom(_, _, _, _)
ScanFrom(states, i, sleep_ns, qos_ns) ==
    IF i < 0 THEN -1
    ELSE LET s == Small(state_sleep_ns(states[i + 1])) IN
         IF WideGt(s, sleep_ns) THEN ScanFrom(states, i - 1, sleep_ns, qos_ns)
         ELSE IF WideLt(s, Small(qos_ns * NSEC_PER_USEC))
              THEN i
              ELSE ScanFrom(states, i - 1, sleep_ns, qos_ns)

\* earliest wakeup over the CPUs of mask that are online (lines 124-129)
RECURSIVE EarliestOverFromZero(_, _)
EarliestOverFromZero(cs, wake) ==
    IF cs = {} THEN Small(0)
    ELSE LET c == CHOOSE x \in cs : TRUE
             rest == EarliestOverFromZero(cs \ {c}, wake)
         IN IF WideGt(rest, wake[c]) THEN wake[c] ELSE rest

RECURSIVE EarliestOver(_, _)
EarliestOver(cs, wake) ==
    IF cs = {} THEN KTIME_SEC_MAX_NS
    ELSE LET c == CHOOSE x \in cs : TRUE
             rest == EarliestOver(cs \ {c}, wake)
         IN IF WideGt(rest, wake[c]) THEN wake[c] ELSE rest

\* sleep_ns = ktime_to_ns(ktime_sub(earliest, ktime_get())), stored in a u64
SleepNs(earliest, now) == ToU64(ktime_sub(earliest, now))

\* ------------------------------------------------------------- description
\* The parsed device tree the code reads through the of_* calls: per domain
\* node its "power-domains" parent, its availability, its idle states, whether
\* another subsystem already provides a generic (non CPU) domain for it, and
\* per CPU the node its "power-domains" property points at; with it the
\* callbacks the platform passes to of_setup_cpu_pd*() (struct cpu_pd_ops).
\* A callback is 1 when the platform has one, NULL when it has none.
PlatformOps == [power_off |-> 1, power_on |-> 1]
NoOps == [power_off |-> NULL, power_on |-> NULL]

Description(par, avail, ext, tables, cpun, ops) ==
    [parent |-> par, available |-> avail, ext |-> ext,
     idle_states |-> tables, cpu_node |-> cpun, ops |-> ops]

T3 == <<S10, S30, S100>>

DescChain ==
    Description([n \in Nodes |-> IF n = 3 THEN NoNode ELSE n + 1],
                [n \in Nodes |-> TRUE], {},
                [n \in Nodes |-> IF n = 1 THEN T3 ELSE IF n = 2 THEN <<S100>> ELSE <<>>],
                [c \in CPUS |-> IF c = 1 THEN 2 ELSE 1],
                PlatformOps)

DescFork ==
    Description([n \in Nodes |-> IF n = 3 THEN NoNode ELSE 3],
                [n \in Nodes |-> TRUE], {},
                [n \in Nodes |-> IF n = 1 THEN <<S100, S10>> ELSE IF n = 2 THEN T3 ELSE <<S100>>],
                [c \in CPUS |-> IF c = 0 THEN 1 ELSE 2],
                NoOps)

DescExternal ==
    Description([n \in Nodes |-> IF n = 3 THEN NoNode ELSE n + 1],
                [n \in Nodes |-> TRUE], {3},
                [n \in Nodes |-> IF n = 1 THEN <<S100>> ELSE T3],
                [c \in CPUS |-> IF c = 0 THEN 1 ELSE 3],
                PlatformOps)

DescCycle ==
    Description([n \in Nodes |-> IF n = 1 THEN 2 ELSE IF n = 2 THEN 1 ELSE NoNode],
                [n \in Nodes |-> TRUE], {},
                [n \in Nodes |-> IF n = 1 THEN T3 ELSE <<S10>>],
                [c \in CPUS |-> IF c = 0 THEN 1 ELSE 2],
                PlatformOps)

DescDisabled ==
    Description([n \in Nodes |-> IF n = 1 THEN 2 ELSE NoNode],
                [n \in Nodes |-> n # 2], {},
                [n \in Nodes |-> IF n = 1 THEN T3 ELSE <<>>],
                [c \in CPUS |-> IF c = 0 THEN 1 ELSE IF c = 1 THEN 2 ELSE NoNode],
                NoOps)

Descriptions == {DescChain, DescFork, DescExternal, DescCycle, DescDisabled}


\* handle of the generic domain another subsystem registered for node n
ExtGenpd(n) == 0 - n

\* what can go wrong inside one of_init_cpu_pm_domain / of_get_cpu_domain visit
FaultKinds == {"ok", "enomem_genpd", "enomem_name", "enomem_pd", "enomem_cpus",
               "genpd_init", "provider", "subdomain"}

FaultPlans == [Nodes -> FaultKinds]

\* outcome of get_cpu_device / genpd_dev_pm_attach for the CPU being attached
DevOutcomes == {"ok", "no_dev", "attach_fail"}

\* callers that can run of_setup_cpu_pd_single at the same time
Threads == {1, 2}

\* a caller that is not inside a call
IdleThread == [pc |-> "idle"]

VARIABLES
    dt,              \* the description (fixed after boot)
    providers,       \* of_genpd provider table: node -> genpd handle, NULL if none
    of_cpu_pd_list,  \* the registry list, head first
    cpu_pm_domain,   \* id -> struct cpu_pm_domain (genpd, parent, cpus, ops)
    genpds,          \* id -> the fields of struct generic_pm_domain used here
    freed,           \* ids whose cpu_pm_domain and genpd were kfree()d
    links,           \* pm_genpd_add_subdomain calls that succeeded: <<first, second>>
    halted,          \* "run", "oops" (NULL dereference) or "hang" (endless walk)
    thread,          \* per caller running of_setup_cpu_pd_single step by step: its position
    attached,        \* history: <<cpu, cpu_pd>> of the cpu_pd_attach_cpu calls that returned 0
    call             \* the last call: its inputs and what it returned

vars == <<dt, providers, of_cpu_pd_list, cpu_pm_domain, genpds, freed, links,
          halted, thread, attached, call>>

\* the kernel state the build functions work on, as one value
World ==
    [providers |-> providers, list |-> of_cpu_pd_list, pd |-> cpu_pm_domain,
     gp |-> genpds, freed |-> freed, links |-> links, halted |-> halted]

Ret(w, err, ptr) == [w |-> w, err |-> err, ptr |-> ptr]

\* ---------------------------------------------------------------- registry
\* Result of a list walk that followed a dangling link into unmapped memory.
OOPS == 0 - 1

\* to_cpu_pd(d): walk of_cpu_pd_list from the head and return the first entry
\* whose genpd is d.  An entry that was kfree()d while still linked is read
\* through a dangling pointer: the memory may have been reused, so its genpd
\* field may compare equal to d (the entry is returned); it may still hold
\* what it held when freed (no match, the walk goes on); or its link may
\* lead into unmapped memory (OOPS).  The operator is the set of results the
\* call can have.
RECURSIVE ListScan(_, _, _)
ListScan(w, d, i) ==
    IF i > Len(w.list) THEN {NULL}
    ELSE LET pd == w.list[i] IN
         IF pd \in w.freed
         THEN {pd, OOPS} \cup ListScan(w, d, i + 1)
         ELSE IF w.pd[pd].genpd = d THEN {pd} ELSE ListScan(w, d, i + 1)

to_cpu_pd(w, d) == ListScan(w, d, 1)

\* ------------------------------------------------------------------- build
\* of_init_cpu_pm_domain(dn, ops) under the given fault.  The new domain gets
\* the next id; its genpd and its cpu_pm_domain share the id.  A failure of
\* of_pm_genpd_init takes the fail path after list_add_rcu: both objects are
\* freed and the entry stays linked.  A failed first kzalloc reaches
\* kfree(genpd->name) with genpd == NULL.
\* line 230: if (!of_device_is_available(dn))
NodeUnavailableNever(dn) == FALSE
NodeUnavailable(dn) == ~dt.available[dn]

\* lines 262-266: the value of_pm_genpd_init returns under the fault
GenpdInitRetIgnored(fault) == 0
GenpdInitRet(fault) == IF fault = "genpd_init" THEN EINVAL ELSE 0

\* lines 268-273: what the function returns after of_genpd_add_provider_simple
\* returned ret for the domain id: the failure is only warned about
ProviderRetFatal(ret, id) ==
    IF ret # 0 THEN [err |-> ret, ptr |-> NULL] ELSE [err |-> 0, ptr |-> id]
ProviderRet(ret, id) == [err |-> 0, ptr |-> id]

of_init_cpu_pm_domain(w, dn, ops, fault) ==
    IF NodeUnavailable(dn) THEN Ret(w, ENODEV, NULL)
    ELSE IF fault = "enomem_genpd" \/ Len(w.list) >= MaxDomains
    THEN Ret([w EXCEPT !.halted = "oops"], ENOMEM, NULL)
    ELSE IF fault \in {"enomem_name", "enomem_pd", "enomem_cpus"}
    THEN Ret(w, ENOMEM, NULL)
    ELSE LET id == Len(w.list) + 1
             w1 == [w EXCEPT
                      !.pd = Append(@, [genpd |-> id, parent |-> NULL,
                                        cpus |-> {}, ops |-> ops]),
                      !.gp = Append(@, [states |-> <<>>, state_idx |-> 0,
                                        node |-> dn]),
                      !.list = <<id>> \o @]
         IN IF GenpdInitRet(fault) # 0
            THEN Ret([w1 EXCEPT !.freed = @ \cup {id}], GenpdInitRet(fault), NULL)
            ELSE LET w2 == [w1 EXCEPT !.gp[id].states = dt.idle_states[dn]]
                     rv == ProviderRet(IF fault = "provider" THEN EINVAL ELSE 0, id)
                 IN IF fault = "provider"
                    THEN Ret(w2, rv.err, rv.ptr)
                    ELSE Ret([w2 EXCEPT !.providers[dn] = id], rv.err, rv.ptr)

\* The part of of_get_cpu_domain after the recursive call returned p for the
\* parent node, genpd being the domain just created for dn (lines 312-335).
LinkParent(genpd, p, dn, plan) ==
    IF p.w.halted # "run" THEN {p}
    ELSE IF p.err # 0 THEN {Ret(p.w, 0, genpd)}
    ELSE IF plan[dn] = "subdomain" THEN {Ret(p.w, EINVAL, NULL)}
    ELSE LET w1 == [p.w EXCEPT !.links = @ \cup {<<genpd, p.ptr>>}]
         IN { IF cpu_pd = OOPS \/ parent_cpu_pd = OOPS
              THEN Ret([w1 EXCEPT !.halted = "oops"], 0, genpd)
              ELSE IF cpu_pd # NULL /\ parent_cpu_pd # NULL
              THEN Ret([w1 EXCEPT !.pd[cpu_pd].parent = parent_cpu_pd], 0, genpd)
              ELSE Ret(w1, 0, genpd)
              : cpu_pd \in to_cpu_pd(w1, genpd),
                parent_cpu_pd \in to_cpu_pd(w1, p.ptr) }

\* of_get_cpu_domain(dn, ops, cpu): the set of results the call can have
RECURSIVE of_get_cpu_domain(_, _, _, _)
of_get_cpu_domain(w, dn, ops, plan) ==
    IF w.providers[dn] # NULL THEN {Ret(w, 0, w.providers[dn])}
    ELSE LET r == of_init_cpu_pm_domain(w, dn, ops, plan[dn]) IN
         IF r.err # 0 \/ r.w.halted # "run" THEN {r}
         ELSE IF dt.parent[dn] = NoNode THEN {r}
         ELSE UNION { LinkParent(r.ptr, p, dn, plan) :
                      p \in of_get_cpu_domain(r.w, dt.parent[dn], ops, plan) }

\* ------------------------------------------------------------------ attach
\* cpumask_set_cpu(cpu, dstp): set the bit of cpu in the mask
cpumask_toggle_cpu(cpu, dstp) == (dstp \ {cpu}) \cup ({cpu} \ dstp)
cpumask_set_cpu(cpu, dstp) == dstp \cup {cpu}

\* The walk of cpu_pd_attach_cpu (lines 191-194) from p upwards: p gets the
\* CPU and the walk follows p->parent.  A freed domain is written and read
\* through a dangling pointer: either the memory still holds what was last
\* written there and the walk goes on as for a live domain, or the access
\* faults.  A domain met twice means the walk never ends.
RECURSIVE Walk(_, _, _, _)
Walk(w, p, cpu, seen) ==
    IF p = NULL THEN {w}
    ELSE IF p \in seen THEN {[w EXCEPT !.halted = "hang"]}
    ELSE (IF p \in w.freed THEN {[w EXCEPT !.halted = "oops"]} ELSE {}) \cup
         Walk([w EXCEPT !.pd[p].cpus = cpumask_set_cpu(cpu, @)], w.pd[p].parent,
              cpu, seen \cup {p})

\* does the walk run (the loop condition !ret, line 191)
WalkRunsAlways(ret) == TRUE
WalkRuns(ret) == ret = 0

\* cpu_pd_attach_cpu(cpu_pd, cpu) under the given device outcome
cpu_pd_attach_cpu(w, cpu_pd, cpu, dev) ==
    IF dev = "no_dev" THEN {Ret(w, ENODEV, NULL)}
    ELSE LET ret == IF dev = "attach_fail" THEN EINVAL ELSE 0 IN
         IF WalkRuns(ret)
         THEN { Ret(w1, ret, NULL) : w1 \in Walk(w, cpu_pd, cpu, {}) }
         ELSE {Ret(w, ret, NULL)}

\* of_setup_cpu_pd_single(cpu, ops): the results the call can have, each with
\* the genpd it resolved and the cpu_pm_domain it attached to
of_setup_cpu_pd_single(w, cpu, ops, plan) ==
    IF dt.cpu_node[cpu] = NoNode
    THEN {[w |-> w, err |-> ENODEV, genpd |-> NULL, cpu_pd |-> NULL, stage |-> "node"]}
    ELSE UNION {
           IF r.err # 0 \/ r.w.halted # "run"
           THEN {[w |-> r.w, err |-> r.err, genpd |-> NULL, cpu_pd |-> NULL,
                  stage |-> "resolve"]}
           ELSE UNION {
                  IF cpu_pd = OOPS
                  THEN {[w |-> [r.w EXCEPT !.halted = "oops"], err |-> 0,
                         genpd |-> r.ptr, cpu_pd |-> NULL, stage |-> "lookup"]}
                  ELSE IF cpu_pd = NULL
                  THEN {[w |-> r.w, err |-> ENOENT, genpd |-> r.ptr, cpu_pd |-> NULL,
                         stage |-> "lookup"]}
                  ELSE UNION {
                         { [w |-> a.w, err |-> a.err, genpd |-> r.ptr,
                            cpu_pd |-> cpu_pd, stage |-> dev] :
                           a \in cpu_pd_attach_cpu(r.w, cpu_pd, cpu, dev) }
                         : dev \in DevOutcomes }
                  : cpu_pd \in to_cpu_pd(r.w, r.ptr) }
           : r \in of_get_cpu_domain(w, dt.cpu_node[cpu], ops, plan) }

\* --------------------------------------------------------------- admission
\* inputs of one cpu_pd_down_ok call: pm_qos_request (us), ktime_get (ns),
\* tick_nohz_get_next_wakeup per CPU, cpu_online_mask
QosValues == {0, 20, 150}
NowTimes == {100000, 200000}
WakeTimes == {Small(100000), Small(250000), KTIME_MAX}

\* line 107: genpd->state_idx = 0
ResetIdxKeep(old) == old
ResetIdx(old) == 0

\* line 110: if (!qos_ns)
QosVeto(qos_ns) == qos_ns = 0

\* line 132: if (sleep_ns <= 0), sleep_ns being a u64
SleepVeto(sleep_ns) == sleep_ns = Small(0)

\* line 139: the scan starts at state_count - 1
ScanStart(states) == Len(states) - 1

\* lines 161-164: the index stored and the value returned for the final i
StoredIdxOffByOne(i, idx0) == IF i >= 0 THEN i + 1 ELSE idx0
StoredIdx(i, idx0) == IF i >= 0 THEN i ELSE idx0

PermitsAlso(i) == i >= 0 - 1
Permits(i) == i >= 0

\* cpu_pd_down_ok for a genpd gp whose cpu_pm_domain has the CPU mask `mask`:
\* the new state_idx and the returned value, with the intermediate values
cpu_pd_down_ok(gp, mask, qos_ns, now, wake, online) ==
    LET idx0 == ResetIdx(gp.state_idx)
        earliest == EarliestOver(mask \cap online, wake)
        sleep_ns == SleepNs(earliest, now)
        i == ScanFrom(gp.states, ScanStart(gp.states), sleep_ns, qos_ns)
    IN IF QosVeto(qos_ns)
       THEN [state_idx |-> idx0, ret |-> "veto", at |-> "qos"]
       ELSE IF SleepVeto(sleep_ns)
       THEN [state_idx |-> idx0, ret |-> "veto", at |-> "sleep", sleep_ns |-> sleep_ns]
       ELSE [state_idx |-> StoredIdx(i, idx0),
             ret |-> IF Permits(i) THEN "permit" ELSE "veto", at |-> "scan",
             sleep_ns |-> sleep_ns]

\* ----------------------------------------------------------------- actions
Init ==
    /\ dt \in Descriptions
    /\ providers = [n \in Nodes |-> IF n \in dt.ext THEN ExtGenpd(n) ELSE NULL]
    /\ of_cpu_pd_list = <<>>
    /\ cpu_pm_domain = <<>>
    /\ genpds = <<>>
    /\ freed = {}
    /\ links = {}
    /\ halted = "run"
    /\ thread = [t \in Threads |-> IdleThread]
    /\ attached = {}
    /\ call = [op |-> "boot"]

Install(w) ==
    /\ providers' = w.providers
    /\ of_cpu_pd_list' = w.list
    /\ cpu_pm_domain' = w.pd
    /\ genpds' = w.gp
    /\ freed' = w.freed
    /\ links' = w.links
    /\ halted' = w.halted

\* The nodes a resolve starting at dn creates domains for when nothing stops
\* it, in the order of the visits: dn and its ancestors up to the first node
\* that has a provider or is not available.
RECURSIVE VisitOrder(_, _)
VisitOrder(dn, seen) ==
    IF dn = NoNode \/ dn \in seen THEN <<>>
    ELSE IF providers[dn] # NULL \/ ~dt.available[dn] THEN <<>>
    ELSE <<dn>> \o VisitOrder(dt.parent[dn], seen \cup {dn})

\* A fault can only strike at a node the call creates a domain for, and only
\* if the creation of every node visited before it went through (a plan that
\* differs only at nodes the call never reaches is the same call).
CanStrike(plan, cpu) ==
    LET order == VisitOrder(dt.cpu_node[cpu], {}) IN
    \A n \in Nodes : plan[n] # "ok" =>
        \E i \in 1 .. Len(order) :
            /\ order[i] = n
            /\ \A j \in 1 .. (i - 1) : plan[order[j]] \in {"ok", "provider", "subdomain"}

\* one call of of_setup_cpu_pd_single(cpu, ops)
SetupCpuPdSingle ==
    /\ halted = "run"
    /\ call.op \in {"boot", "idle"}
    /\ \E cpu \in CPUS, plan \in FaultPlans :
         /\ CanStrike(plan, cpu)
         /\ \E o \in of_setup_cpu_pd_single(World, cpu, dt.ops, plan) :
              /\ Install(o.w)
              /\ attached' = IF o.stage = "ok" /\ o.err = 0 /\ o.w.halted = "run"
                              THEN attached \cup {<<cpu, o.cpu_pd>>}
                              ELSE attached
              /\ call' = [op |-> "setup", cpu |-> cpu, stage |-> o.stage,
                          err |-> o.err, genpd |-> o.genpd, cpu_pd |-> o.cpu_pd,
                          done |-> o.w.halted = "run", plan |-> plan,
                          first |-> Len(of_cpu_pd_list) + 1,
                          again |-> <<cpu, o.cpu_pd>> \in attached]
    /\ UNCHANGED <<dt, thread>>

\* genpds the PM core can ask the governor about: initialised by
\* of_pm_genpd_init with cpu_pd_gov and not freed
Governed == { g \in 1 .. Len(genpds) : g \notin freed }

\* one call of cpu_pd_down_ok by the PM core for genpd g
PowerDownOk ==
    /\ halted # "oops"
    /\ call.op \in {"boot", "idle"}
    /\ \E g \in Governed, qos_ns \in QosValues, now \in NowTimes,
          wake \in [CPUS -> WakeTimes], online \in SUBSET CPUS :
         \E cpu_pd \in to_cpu_pd(World, g) :
            LET in == [op |-> "down_ok", genpd |-> g, cpu_pd |-> cpu_pd,
                       qos_ns |-> qos_ns, now |-> now, wake |-> wake,
                       online |-> online, prev_idx |-> genpds[g].state_idx]
            IN
            IF cpu_pd = OOPS
            THEN /\ halted' = "oops"
                 /\ call' = in @@ [ret |-> "oops", at |-> "lookup"]
                 /\ UNCHANGED genpds
            ELSE IF cpu_pd = NULL /\ ~QosVeto(qos_ns)
            THEN /\ halted' = "oops"
                 /\ genpds' = [genpds EXCEPT ![g].state_idx = ResetIdx(@)]
                 /\ call' = in @@ [ret |-> "oops", at |-> "mask"]
            ELSE \E mask \in (IF cpu_pd = NULL THEN {{}}
                              ELSE IF cpu_pd \in freed THEN SUBSET CPUS
                              ELSE {cpu_pm_domain[cpu_pd].cpus}) :
                   LET r == cpu_pd_down_ok(genpds[g], mask, qos_ns, now, wake, online)
                   IN /\ genpds' = [genpds EXCEPT ![g].state_idx = r.state_idx]
                      /\ call' = in @@ r @@ [mask |-> mask]
                      /\ UNCHANGED halted
    /\ UNCHANGED <<dt, providers, of_cpu_pd_list, cpu_pm_domain, freed, links,
                   thread, attached>>

\* the caller takes the returned value (of_setup_cpu_pd tests ret, line 397)
SetupReturn ==
    /\ call.op = "setup"
    /\ call' = [op |-> "idle"]
    /\ UNCHANGED <<dt, providers, of_cpu_pd_list, cpu_pm_domain, genpds, freed,
                   links, halted, thread, attached>>

Next == SetupCpuPdSingle \/ SetupReturn

Spec == Init /\ [][Next]_vars

\* ---------------------------------------------------- the batch operation
\* VisitOrder and CanStrike for a call that starts in the kernel state w
RECURSIVE VisitOrderIn(_, _, _)
VisitOrderIn(w, dn, seen) ==
    IF dn = NoNode \/ dn \in seen THEN <<>>
    ELSE IF w.providers[dn] # NULL \/ ~dt.available[dn] THEN <<>>
    ELSE <<dn>> \o VisitOrderIn(w, dt.parent[dn], seen \cup {dn})

CanStrikeIn(w, plan, cpu) ==
    LET order == VisitOrderIn(w, dt.cpu_node[cpu], {}) IN
    \A n \in Nodes : plan[n] # "ok" =>
        \E i \in 1 .. Len(order) :
            /\ order[i] = n
            /\ \A j \in 1 .. (i - 1) : plan[order[j]] \in {"ok", "provider", "subdomain"}

\* line 397: if (ret) break
BatchStopsNever(ret) == FALSE
BatchStops(ret) == ret # 0

\* of_setup_cpu_pd(ops) from CPU `cpu` on (for_each_possible_cpu goes up from
\* CPU 0): the results the rest of the loop can have.  b is what the loop did
\* so far: the CPUs of_setup_cpu_pd_single was called for, the attaches that
\* returned 0, the first CPU whose call failed, and the last ret.
RECURSIVE BatchFrom(_, _, _, _)
BatchFrom(w, cpu, ops, b) ==
    IF cpu >= NumCpus THEN {[b EXCEPT !.w = w]}
    ELSE UNION {
           UNION {
             LET b1 == [b EXCEPT
                          !.w = o.w, !.ret = o.err,
                          !.tried = @ \cup {cpu},
                          !.oks = IF o.stage = "ok" /\ o.err = 0 /\ o.w.halted = "run"
                                  THEN @ \cup {<<cpu, o.cpu_pd>>} ELSE @,
                          !.failed = IF @ = 0 - 1 /\ o.err # 0 THEN cpu ELSE @]
             IN IF o.w.halted # "run" \/ BatchStops(o.err)
                THEN {b1}
                ELSE BatchFrom(o.w, cpu + 1, ops, b1)
             : o \in of_setup_cpu_pd_single(w, cpu, ops, plan) }
           : plan \in {pl \in FaultPlans : CanStrikeIn(w, pl, cpu)} }

of_setup_cpu_pd(w, ops) ==
    BatchFrom(w, 0, ops, [w |-> w, ret |-> 0, tried |-> {}, oks |-> {},
                          failed |-> 0 - 1])

\* one call of of_setup_cpu_pd(ops)
OfSetupCpuPd ==
    /\ halted = "run"
    /\ call.op \in {"boot", "idle"}
    /\ \E b \in of_setup_cpu_pd(World, dt.ops) :
         /\ Install(b.w)
         /\ attached' = attached \cup b.oks
         /\ call' = [op |-> "batch", ret |-> b.ret, tried |-> b.tried,
                     failed |-> b.failed, done |-> b.w.halted = "run"]
    /\ UNCHANGED <<dt, thread>>

\* the caller takes the value of_setup_cpu_pd returned (line 401)
BatchReturn ==
    /\ call.op = "batch"
    /\ call' = [op |-> "idle"]
    /\ UNCHANGED <<dt, providers, of_cpu_pd_list, cpu_pm_domain, genpds, freed,
                   links, halted, thread, attached>>

NextBatch == OfSetupCpuPd \/ BatchReturn

SpecBatch == Init /\ [][NextBatch]_vars

\* ------------------------------------------------- the governor on its own
\* A platform with one domain node, whose idle states are any of the tables.
DescSingle(table, ops) ==
    Description([n \in Nodes |-> NoNode], [n \in Nodes |-> TRUE], {},
                [n \in Nodes |-> table], [c \in CPUS |-> 1], ops)

\* The registry when the governor runs: the domain of node 1 (id 1) with the
\* CPUs attached so far, as of_init_cpu_pm_domain and cpu_pd_attach_cpu leave
\* it; with `stale`, a later of_init_cpu_pm_domain for the same node (its
\* provider was not added) failed in of_pm_genpd_init and left its freed
\* entry (id 2) at the head of the list.
InitGov ==
    \E table \in StateTables, mask \in SUBSET CPUS, stale \in BOOLEAN,
       ops \in {PlatformOps, NoOps} :
        LET pd1 == [genpd |-> 1, parent |-> NULL, cpus |-> mask, ops |-> ops]
            pd2 == [genpd |-> 2, parent |-> NULL, cpus |-> {}, ops |-> ops]
            gp1 == [states |-> table, state_idx |-> 0, node |-> 1]
            gp2 == [states |-> <<>>, state_idx |-> 0, node |-> 1]
        IN /\ dt = DescSingle(table, ops)
           /\ providers = [n \in Nodes |-> IF n = 1 /\ ~stale THEN 1 ELSE NULL]
           /\ of_cpu_pd_list = IF stale THEN <<2, 1>> ELSE <<1>>
           /\ cpu_pm_domain = IF stale THEN <<pd1, pd2>> ELSE <<pd1>>
           /\ genpds = IF stale THEN <<gp1, gp2>> ELSE <<gp1>>
           /\ freed = IF stale THEN {2} ELSE {}
           /\ links = {}
           /\ halted = "run"
           /\ thread = [t \in Threads |-> IdleThread]
           /\ attached = {<<c, 1>> : c \in mask}
           /\ call = [op |-> "boot"]

\* the PM core takes the verdict of the governor
GovReturn ==
    /\ call.op = "down_ok"
    /\ call' = [op |-> "idle"]
    /\ UNCHANGED <<dt, providers, of_cpu_pd_list, cpu_pm_domain, genpds, freed,
                   links, halted, thread, attached>>

\* values a platform's power_off callback returns
PlatformRets == {0, EINVAL}

\* cpu_pd_power_off(genpd) for the genpd fields gp, pd being the
\* cpu_pm_domain to_cpu_pd returned and cbret what the callback returns if
\* called: whether the callback is called, its arguments, the value returned
cpu_pd_power_off(gp, pd, cbret) ==
    IF pd.ops.power_off # NULL
    THEN [called |-> TRUE, idx |-> gp.state_idx,
          param |-> gp.states[gp.state_idx + 1].param,
          mask |-> pd.cpus, ret |-> cbret]
    ELSE [called |-> FALSE, ret |-> 0]

\* The PM core powers the domain off after the governor permitted it: one
\* call of cpu_pd_power_off for that genpd.  A freed entry returned by
\* to_cpu_pd is read through a dangling pointer: its callback pointer and
\* its mask are whatever the memory holds now (no callback, the platform's
\* callback, or a wild pointer), and a NULL result is dereferenced.
CpuPdPowerOff ==
    /\ halted # "oops"
    /\ call.op = "down_ok" /\ call.ret = "permit"
    /\ LET g == call.genpd
           in == [op |-> "power_off", genpd |-> g, sel |-> call.state_idx,
                  oops |-> FALSE]
       IN \E cpu_pd \in to_cpu_pd(World, g), cbret \in PlatformRets :
            IF cpu_pd = OOPS \/ cpu_pd = NULL
            THEN /\ halted' = "oops"
                 /\ call' = [in EXCEPT !.oops = TRUE] @@ [cpu_pd |-> NULL]
            ELSE IF cpu_pd \in freed
            THEN \/ /\ halted' = "oops"
                    /\ call' = [in EXCEPT !.oops = TRUE] @@ [cpu_pd |-> cpu_pd]
                 \/ \E o \in {PlatformOps, NoOps}, m \in SUBSET CPUS :
                      /\ call' = in @@ [cpu_pd |-> cpu_pd]
                                    @@ cpu_pd_power_off(genpds[g],
                                           [cpu_pm_domain[cpu_pd] EXCEPT
                                               !.ops = o, !.cpus = m], cbret)
                      /\ UNCHANGED halted
            ELSE /\ call' = in @@ [cpu_pd |-> cpu_pd]
                               @@ cpu_pd_power_off(genpds[g], cpu_pm_domain[cpu_pd], cbret)
                 /\ UNCHANGED halted
    /\ UNCHANGED <<dt, providers, of_cpu_pd_list, cpu_pm_domain, genpds, freed,
                   links, thread, attached>>

\* the PM core takes the value cpu_pd_power_off returned
PowerOffReturn ==
    /\ call.op = "power_off"
    /\ call' = [op |-> "idle"]
    /\ UNCHANGED <<dt, providers, of_cpu_pd_list, cpu_pm_domain, genpds, freed,
                   links, halted, thread, attached>>

NextGov == PowerDownOk \/ GovReturn \/ CpuPdPowerOff \/ PowerOffReturn

SpecGov == InitGov /\ [][NextGov]_vars

\* ------------------------------------------------------ concurrent builds
\* of_setup_cpu_pd_single run by several callers at once.  Nothing serialises
\* the callers: cpu_pd_list_lock is held only around list_add_rcu (lines
\* 256-258), and the provider lookup and the provider registration take the
\* lock of the genpd core separately.  A caller's position is the call of
\* of_get_cpu_domain it is in: the node being resolved, and the genpds
\* created by the enclosing calls that wait for their parent (innermost
\* first).  The steps are the provider lookup, of_init_cpu_pm_domain, the
\* linking to the parent, and the attach.
AllOk == [n \in Nodes |-> "ok"]

\* where a caller goes when of_get_cpu_domain returned for the current node
AfterResolve(stack) == IF stack = <<>> THEN "attach" ELSE "link"

InitRace ==
    /\ dt \in {DescSingle(T3, PlatformOps), DescChain, DescFork}
    /\ providers = [n \in Nodes |-> NULL]
    /\ of_cpu_pd_list = <<>>
    /\ cpu_pm_domain = <<>>
    /\ genpds = <<>>
    /\ freed = {}
    /\ links = {}
    /\ halted = "run"
    /\ thread = [t \in Threads |-> IdleThread]
    /\ attached = {}
    /\ call = [op |-> "boot"]

\* lines 357-363: the caller enters of_setup_cpu_pd_single(cpu, ops)
RaceCall(t) ==
    /\ thread[t].pc = "idle"
    /\ \E cpu \in CPUS :
         /\ dt.cpu_node[cpu] # NoNode
         /\ thread' = [thread EXCEPT ![t] =
                         [pc |-> "lookup", cpu |-> cpu, node |-> dt.cpu_node[cpu],
                          stack |-> <<>>, ret |-> NULL, err |-> 0]]
    /\ UNCHANGED <<dt, providers, of_cpu_pd_list, cpu_pm_domain, genpds, freed,
                   links, halted, attached, call>>

\* lines 292-298: genpd = of_genpd_get_from_provider(&args)
RaceLookup(t) ==
    /\ thread[t].pc = "lookup"
    /\ LET th == thread[t] IN
       thread' = [thread EXCEPT ![t] =
                     IF providers[th.node] # NULL
                     THEN [th EXCEPT !.ret = providers[th.node],
                                     !.pc = AfterResolve(th.stack)]
                     ELSE [th EXCEPT !.pc = "init"]]
    /\ UNCHANGED <<dt, providers, of_cpu_pd_list, cpu_pm_domain, genpds, freed,
                   links, halted, attached, call>>

\* lines 300-308: genpd = of_init_cpu_pm_domain(dn, ops), then the parent node
RaceInit(t) ==
    /\ thread[t].pc = "init"
    /\ Len(of_cpu_pd_list) < MaxDomains
    /\ LET th == thread[t]
           r == of_init_cpu_pm_domain(World, th.node, dt.ops, "ok")
       IN /\ Install(r.w)
          /\ thread' = [thread EXCEPT ![t] =
                IF r.err # 0
                THEN IF th.stack = <<>>
                     THEN [th EXCEPT !.pc = "done", !.err = r.err]
                     ELSE [th EXCEPT !.ret = Head(th.stack), !.stack = Tail(th.stack),
                                     !.pc = AfterResolve(Tail(th.stack))]
                ELSE IF dt.parent[th.node] = NoNode
                     THEN [th EXCEPT !.ret = r.ptr, !.pc = AfterResolve(th.stack)]
                     ELSE [th EXCEPT !.stack = <<r.ptr>> \o @,
                                     !.node = dt.parent[th.node],
                                     !.pc = "lookup"]]
    /\ UNCHANGED <<dt, attached, call>>

\* lines 314-335: pm_genpd_add_subdomain(genpd, parent) and the parent
\* reference, for the innermost waiting genpd
RaceLink(t) ==
    /\ thread[t].pc = "link"
    /\ LET th == thread[t]
           child == Head(th.stack)
       IN \E l \in LinkParent(child, Ret(World, 0, th.ret), genpds[child].node, AllOk) :
            /\ Install(l.w)
            /\ thread' = [thread EXCEPT ![t] =
                             [th EXCEPT !.ret = child, !.stack = Tail(th.stack),
                                        !.pc = AfterResolve(Tail(th.stack))]]
    /\ UNCHANGED <<dt, attached, call>>

\* lines 370-378: cpu_pd = to_cpu_pd(genpd) and cpu_pd_attach_cpu(cpu_pd, cpu)
RaceAttach(t) ==
    /\ thread[t].pc = "attach"
    /\ LET th == thread[t] IN
       \E cpu_pd \in to_cpu_pd(World, th.ret) :
          IF cpu_pd = NULL
          THEN /\ thread' = [thread EXCEPT ![t] = [th EXCEPT !.pc = "done", !.err = ENOENT]]
               /\ UNCHANGED <<providers, of_cpu_pd_list, cpu_pm_domain, genpds,
                              freed, links, halted, attached>>
          ELSE \E a \in cpu_pd_attach_cpu(World, cpu_pd, th.cpu, "ok") :
                 /\ Install(a.w)
                 /\ attached' = attached \cup {<<th.cpu, cpu_pd>>}
                 /\ thread' = [thread EXCEPT ![t] = [th EXCEPT !.pc = "done", !.err = a.err]]
    /\ UNCHANGED <<dt, call>>

NextRace ==
    \E t \in Threads :
        RaceCall(t) \/ RaceLookup(t) \/ RaceInit(t) \/ RaceLink(t) \/ RaceAttach(t)

SpecRace == InitRace /\ [][NextRace]_vars

\* ------------------------------------- the build and its readers, by line
\* The same callers with of_init_cpu_pm_domain and the walk of
\* cpu_pd_attach_cpu taken one statement at a time, and the PM core calling
\* cpu_pd_down_ok (to_cpu_pd entry by entry, then the evaluation) while they
\* run.  No allocation and no collaborator fails here.
\*
\* The statements of of_init_cpu_pm_domain after its allocations, in program
\* order: zalloc_cpumask_var (245), pd->genpd and the genpd callbacks
\* (248-251), pd->ops (252-253), mutex_lock (256), list_add_rcu (257),
\* mutex_unlock (258), of_pm_genpd_init (262), of_genpd_add_provider_simple
\* (268).
InitOrderPublishFirst ==
    <<"lock", "list_add", "unlock", "cpus", "genpd", "ops", "genpd_init", "provider">>
InitOrder ==
    <<"cpus", "genpd", "ops", "lock", "list_add", "unlock", "genpd_init", "provider">>

InitSteps == { InitOrder[i] : i \in 1 .. Len(InitOrder) }

Pos(step) == CHOOSE i \in 1 .. Len(InitOrder) : InitOrder[i] = step

\* the statements a caller executes with cpu_pd_list_lock held
LockedSteps == { InitOrder[i] : i \in (Pos("lock") + 1) .. Pos("unlock") }

\* the mutex: the caller that holds it, 0 when it is free
cpu_pd_list_lock ==
    IF \E t \in Threads : thread[t].pc \in LockedSteps
    THEN CHOOSE t \in Threads : thread[t].pc \in LockedSteps
    ELSE 0

\* the fields of a cpu_pm_domain that of_init_cpu_pm_domain sets
PdFields == {"cpus", "genpd", "ops"}

\* caller t is inside of_init_cpu_pm_domain for the domain d
Building(t, d) == thread[t].pc \in InitSteps /\ thread[t].id = d

\* every field of the domain d was set by the caller that creates it
Initialised(d) == \A t \in Threads : Building(t, d) => thread[t].set = PdFields

\* the genpds the PM core knows: of_pm_genpd_init returned for them
Registered ==
    { g \in 1 .. Len(genpds) :
        /\ g \notin freed
        /\ \A t \in Threads :
             ~(Building(t, g) /\ Pos(thread[t].pc) <= Pos("genpd_init")) }

\* the caller after the statement `step` of of_init_cpu_pm_domain: at the
\* next statement, or back in of_get_cpu_domain (lines 301-311) with the new
\* genpd, which goes on with the parent node if there is one
AfterStep(th, step) ==
    IF Pos(step) < Len(InitOrder)
    THEN [th EXCEPT !.pc = InitOrder[Pos(step) + 1]]
    ELSE IF dt.parent[th.node] = NoNode
    THEN [th EXCEPT !.ret = th.id, !.pc = AfterResolve(th.stack)]
    ELSE [th EXCEPT !.stack = <<th.id>> \o @, !.node = dt.parent[th.node],
                    !.pc = "lookup"]

\* lines 230-244: the availability test and the allocations; the objects
\* come zeroed from kzalloc
InitAlloc(t) ==
    /\ thread[t].pc = "init"
    /\ Len(cpu_pm_domain) < MaxDomains
    /\ LET th == thread[t]
           id == Len(cpu_pm_domain) + 1
       IN IF NodeUnavailable(th.node)
          THEN /\ thread' = [thread EXCEPT ![t] =
                    IF th.stack = <<>>
                    THEN [th EXCEPT !.pc = "done", !.err = ENODEV]
                    ELSE [th EXCEPT !.ret = Head(th.stack), !.stack = Tail(th.stack),
                                    !.pc = AfterResolve(Tail(th.stack))]]
               /\ UNCHANGED <<cpu_pm_domain, genpds>>
          ELSE /\ cpu_pm_domain' = Append(cpu_pm_domain,
                       [genpd |-> NULL, parent |-> NULL, cpus |-> {}, ops |-> NoOps])
               /\ genpds' = Append(genpds,
                       [states |-> <<>>, state_idx |-> 0, node |-> th.node])
               /\ thread' = [thread EXCEPT ![t] =
                       [id |-> id, set |-> {}] @@ [th EXCEPT !.pc = InitOrder[1]]]
    /\ UNCHANGED <<dt, providers, of_cpu_pd_list, freed, links, halted, attached, call>>

\* line 245: zalloc_cpumask_var(&pd->cpus, GFP_KERNEL)
InitCpus(t) ==
    /\ thread[t].pc = "cpus"
    /\ LET th == thread[t] IN
       /\ cpu_pm_domain' = [cpu_pm_domain EXCEPT ![th.id].cpus = {}]
       /\ thread' = [thread EXCEPT ![t] =
                        AfterStep([th EXCEPT !.set = @ \cup {"cpus"}], "cpus")]
    /\ UNCHANGED <<dt, providers, of_cpu_pd_list, genpds, freed, links, halted,
                   attached, call>>

\* lines 248-251: pd->genpd = genpd and the callbacks and flags of the genpd
InitGenpd(t) ==
    /\ thread[t].pc = "genpd"
    /\ LET th == thread[t] IN
       /\ cpu_pm_domain' = [cpu_pm_domain EXCEPT ![th.id].genpd = th.id]
       /\ thread' = [thread EXCEPT ![t] =
                        AfterStep([th EXCEPT !.set = @ \cup {"genpd"}], "genpd")]
    /\ UNCHANGED <<dt, providers, of_cpu_pd_list, genpds, freed, links, halted,
                   attached, call>>

\* lines 252-253: pd->ops.power_on and pd->ops.power_off
InitOps(t) ==
    /\ thread[t].pc = "ops"
    /\ LET th == thread[t] IN
       /\ cpu_pm_domain' = [cpu_pm_domain EXCEPT ![th.id].ops = dt.ops]
       /\ thread' = [thread EXCEPT ![t] =
                        AfterStep([th EXCEPT !.set = @ \cup {"ops"}], "ops")]
    /\ UNCHANGED <<dt, providers, of_cpu_pd_list, genpds, freed, links, halted,
                   attached, call>>

\* line 256: mutex_lock(&cpu_pd_list_lock) waits until the mutex is free
InitLock(t) ==
    /\ thread[t].pc = "lock"
    /\ cpu_pd_list_lock = 0
    /\ thread' = [thread EXCEPT ![t] = AfterStep(thread[t], "lock")]
    /\ UNCHANGED <<dt, providers, of_cpu_pd_list, cpu_pm_domain, genpds, freed,
                   links, halted, attached, call>>

\* line 257: list_add_rcu(&pd->link, &of_cpu_pd_list)
InitListAdd(t) ==
    /\ thread[t].pc = "list_add"
    /\ of_cpu_pd_list' = <<thread[t].id>> \o of_cpu_pd_list
    /\ thread' = [thread EXCEPT ![t] = AfterStep(thread[t], "list_add")]
    /\ UNCHANGED <<dt, providers, cpu_pm_domain, genpds, freed, links, halted,
                   attached, call>>

\* line 258: mutex_unlock(&cpu_pd_list_lock)
InitUnlock(t) ==
    /\ thread[t].pc = "unlock"
    /\ thread' = [thread EXCEPT ![t] = AfterStep(thread[t], "unlock")]
    /\ UNCHANGED <<dt, providers, of_cpu_pd_list, cpu_pm_domain, genpds, freed,
                   links, halted, attached, call>>

\* line 262: of_pm_genpd_init(dn, pd->genpd, &cpu_pd_gov, false)
InitGenpdInit(t) ==
    /\ thread[t].pc = "genpd_init"
    /\ LET th == thread[t] IN
       /\ genpds' = [genpds EXCEPT ![th.id].states = dt.idle_states[th.node]]
       /\ thread' = [thread EXCEPT ![t] = AfterStep(th, "genpd_init")]
    /\ UNCHANGED <<dt, providers, of_cpu_pd_list, cpu_pm_domain, freed, links,
                   halted, attached, call>>

\* line 268: of_genpd_add_provider_simple(dn, pd->genpd)
InitProvider(t) ==
    /\ thread[t].pc = "provider"
    /\ LET th == thread[t] IN
       /\ providers' = [providers EXCEPT ![th.node] = th.id]
       /\ thread' = [thread EXCEPT ![t] = AfterStep(th, "provider")]
    /\ UNCHANGED <<dt, of_cpu_pd_list, cpu_pm_domain, genpds, freed, links,
                   halted, attached, call>>

\* lines 370-378 and 176-189: cpu_pd = to_cpu_pd(genpd), then get_cpu_device
\* and genpd_dev_pm_attach, which succeed
AttachCpu(t) ==
    /\ thread[t].pc = "attach"
    /\ LET th == thread[t] IN
       \E cpu_pd \in to_cpu_pd(World, th.ret) :
          thread' = [thread EXCEPT ![t] =
                        IF cpu_pd = NULL
                        THEN [th EXCEPT !.pc = "done", !.err = ENOENT]
                        ELSE [at |-> cpu_pd, leaf |-> cpu_pd]
                                 @@ [th EXCEPT !.pc = "walk"]]
    /\ UNCHANGED <<dt, providers, of_cpu_pd_list, cpu_pm_domain, genpds, freed,
                   links, halted, attached, call>>

\* lines 191-196: one round of the loop, or its end and the return
WalkStep(t) ==
    /\ thread[t].pc = "walk"
    /\ LET th == thread[t] IN
       IF th.at = NULL
       THEN /\ thread' = [thread EXCEPT ![t] = [th EXCEPT !.pc = "done", !.err = 0]]
            /\ attached' = attached \cup {<<th.cpu, th.leaf>>}
            /\ UNCHANGED cpu_pm_domain
       ELSE /\ cpu_pm_domain' = [cpu_pm_domain EXCEPT
                                    ![th.at].cpus = cpumask_set_cpu(th.cpu, @)]
            /\ thread' = [thread EXCEPT ![t] =
                             [th EXCEPT !.at = cpu_pm_domain[th.at].parent]]
            /\ UNCHANGED attached
    /\ UNCHANGED <<dt, providers, of_cpu_pd_list, genpds, freed, links, halted, call>>

\* line 99 and lines 85-86: the PM core calls cpu_pd_down_ok for a genpd;
\* to_cpu_pd enters its read-side section and reads the head of the list
ReaderEnter ==
    /\ halted = "run"
    /\ call.op \in {"boot", "idle"}
    /\ \E g \in Registered :
         call' = [op |-> "to_cpu_pd", genpd |-> g, rest |-> of_cpu_pd_list,
                  visited |-> {}, torn |-> FALSE, held |-> cpu_pd_list_lock # 0]
    /\ UNCHANGED <<dt, providers, of_cpu_pd_list, cpu_pm_domain, genpds, freed,
                   links, halted, thread, attached>>

\* lines 86-90: one entry of the list, read while the callers go on; visited
\* are the entries read so far, torn records an entry read before its
\* creator had set all its fields, held that the mutex was held by a caller
\* at every step so far
ReaderVisit ==
    /\ call.op = "to_cpu_pd"
    /\ call.rest # <<>>
    /\ LET pd == Head(call.rest)
           seen == [call EXCEPT !.visited = @ \cup {pd},
                                !.torn = @ \/ ~Initialised(pd),
                                !.held = @ /\ cpu_pd_list_lock # 0]
       IN call' = IF cpu_pm_domain[pd].genpd = call.genpd
                  THEN [seen EXCEPT !.rest = <<pd>>, !.op = "found"]
                  ELSE [seen EXCEPT !.rest = Tail(@)]
    /\ UNCHANGED <<dt, providers, of_cpu_pd_list, cpu_pm_domain, genpds, freed,
                   links, halted, thread, attached>>

\* inputs of the evaluation in this specification
EvalNow == 100000
EvalWake == [c \in CPUS |-> Small(250000)]

\* lines 161-162: the only store of cpu_pd_down_ok, genpd->state_idx
StoreIdxEverywhere(gps, g, idx) ==
    [x \in DOMAIN gps |-> [gps[x] EXCEPT !.state_idx = idx]]
StoreIdx(gps, g, idx) == [gps EXCEPT ![g].state_idx = idx]

\* lines 100-164: the rest of cpu_pd_down_ok with the entry to_cpu_pd returned
DownOkEval ==
    /\ call.op = "found" \/ (call.op = "to_cpu_pd" /\ call.rest = <<>>)
    /\ \E qos_ns \in QosValues, online \in {CPUS} :
         LET g == call.genpd
             cpu_pd == IF call.op = "found" THEN Head(call.rest) ELSE NULL
             in == [op |-> "down_ok", genpd |-> g, cpu_pd |-> cpu_pd,
                    qos_ns |-> qos_ns, now |-> EvalNow, wake |-> EvalWake,
                    online |-> online, prev_idx |-> genpds[g].state_idx,
                    torn |-> call.torn \/ ~Initialised(g),
                    held |-> call.held /\ cpu_pd_list_lock # 0]
         IN IF cpu_pd = NULL /\ ~QosVeto(qos_ns)
            THEN /\ halted' = "oops"
                 /\ genpds' = StoreIdx(genpds, g, ResetIdx(genpds[g].state_idx))
                 /\ call' = in @@ [ret |-> "oops", at |-> "mask"]
            ELSE LET mask == IF cpu_pd = NULL THEN {} ELSE cpu_pm_domain[cpu_pd].cpus
                     r == cpu_pd_down_ok(genpds[g], mask, qos_ns, EvalNow, EvalWake, online)
                 IN /\ genpds' = StoreIdx(genpds, g, r.state_idx)
                    /\ call' = in @@ r @@ [mask |-> mask]
                    /\ UNCHANGED halted
    /\ UNCHANGED <<dt, providers, of_cpu_pd_list, cpu_pm_domain, freed, links,
                   thread, attached>>

NextSteps ==
    \/ \E t \in Threads :
         \/ RaceCall(t) \/ RaceLookup(t)
         \/ InitAlloc(t) \/ InitCpus(t) \/ InitGenpd(t) \/ InitOps(t)
         \/ InitLock(t) \/ InitListAdd(t) \/ InitUnlock(t)
         \/ InitGenpdInit(t) \/ InitProvider(t)
         \/ RaceLink(t) \/ AttachCpu(t) \/ WalkStep(t)
    \/ ReaderEnter \/ ReaderVisit \/ DownOkEval \/ GovReturn

SpecSteps == InitRace /\ [][NextSteps]_vars

\* ================================================================= claims
\* What the claims speak about, stated without the operators of the model.

\* total cost of an idle state: power-off latency + power-on latency + residency
ClaimCost(st) == st.power_off_latency_ns + st.power_on_latency_ns + st.residency_ns

\* the last call was a cpu_pd_down_ok call that returned a verdict
DownOkReturned == call.op = "down_ok" /\ call.ret \in {"permit", "veto"}

CallStates == genpds[call.genpd].states
CallCount == Len(CallStates)
CallIdx == genpds[call.genpd].state_idx
CallCost(i) == ClaimCost(CallStates[i + 1])
CallTolNs == call.qos_ns * 1000

\* the earliest next wakeup over the online CPUs of a member set; the
\* "no constraint" sentinel when there is none
ClaimEarliest(members) ==
    LET ws == {call.wake[c] : c \in members \cap call.online} \cup {<<0, 1, 0>>}
    IN CHOOSE e \in ws : \A x \in ws : ~WideLt(x, e)

\* available_sleep = earliest_wakeup - now, as a signed value
ClaimAvail(members) ==
    LET e == ClaimEarliest(members) IN <<e[1], e[2], e[3] - call.now>>

AvailPositive(members) == WideLt(<<0, 0, 0>>, ClaimAvail(members))
FitsWindow(i, members) == ~WideLt(ClaimAvail(members), <<0, 0, CallCost(i)>>)

\* the members of the evaluated domain (its cpu_pm_domain has the id of its genpd)
CallMembers == cpu_pm_domain[call.genpd].cpus

\* C1 as claimed: with non-zero tolerance and positive available_sleep the
\* deepest state whose cost is <= available_sleep and >= the tolerance is
\* accepted (permit, selected index = that state); costs [10,30,100] us,
\* tolerance 20 us, available_sleep 150 us give permit with index 2.
C1_AsClaimed ==
    (DownOkReturned /\ call.qos_ns # 0 /\ AvailPositive(call.mask)) =>
        /\ \A i \in 0 .. (CallCount - 1) :
             LET ok(j) == FitsWindow(j, call.mask) /\ CallCost(j) >= CallTolNs
             IN (ok(i) /\ \A j \in (i + 1) .. (CallCount - 1) : ~ok(j))
                    => (call.ret = "permit" /\ CallIdx = i)
        /\ (CallStates = T3 /\ call.qos_ns = 20 /\ ClaimAvail(call.mask) = <<0, 0, 150000>>)
               => (call.ret = "permit" /\ CallIdx = 2)

\* C1 amended: with non-zero tolerance and positive available_sleep the
\* deepest state whose cost is <= available_sleep and strictly below the
\* tolerance is accepted (permit, selected index = that state), and the call
\* vetoes when there is no such state; costs [10,30,100] us, tolerance 20 us,
\* available_sleep 150 us give permit with index 0.
C1_DeepestBelowTolerance ==
    (DownOkReturned /\ call.qos_ns # 0 /\ AvailPositive(call.mask)) =>
        LET ok(j) == FitsWindow(j, call.mask) /\ CallCost(j) < CallTolNs IN
        /\ \A i \in 0 .. (CallCount - 1) :
             (ok(i) /\ \A j \in (i + 1) .. (CallCount - 1) : ~ok(j))
                 => (call.ret = "permit" /\ CallIdx = i)
        /\ (\A j \in 0 .. (CallCount - 1) : ~ok(j)) => call.ret = "veto"
        /\ (CallStates = T3 /\ call.qos_ns = 20 /\ ClaimAvail(call.mask) = <<0, 0, 150000>>)
               => (call.ret = "permit" /\ CallIdx = 0)

C1_Witness ==
    /\ DownOkReturned
    /\ CallStates = T3 /\ call.qos_ns = 20
    /\ ClaimAvail(call.mask) = <<0, 0, 150000>>
    /\ call.ret = "permit" /\ CallIdx = 0 /\ call.prev_idx = 2

\* the deepest state that fits in available_sleep, -1 if none fits
DeepestFit ==
    LET fit == {i \in 0 .. (CallCount - 1) : FitsWindow(i, call.mask)}
    IN IF fit = {} THEN 0 - 1 ELSE CHOOSE i \in fit : \A j \in fit : j <= i

\* C2 as claimed: when the deepest state that fits in available_sleep costs
\* strictly less than the tolerance, the call vetoes and the selected index
\* stays 0; costs [10,30,100] us with tolerance 150 us veto both for
\* available_sleep 150 us and for 50 us.
C2_AsClaimed ==
    (DownOkReturned /\ call.qos_ns # 0 /\ AvailPositive(call.mask)) =>
        /\ (DeepestFit >= 0 /\ CallCost(DeepestFit) < CallTolNs)
               => (call.ret = "veto" /\ CallIdx = 0)
        /\ (CallStates = T3 /\ call.qos_ns = 150
            /\ ClaimAvail(call.mask) \in {<<0, 0, 150000>>, <<0, 0, 50000>>})
               => call.ret = "veto"

\* C2 amended: when the deepest state that fits in available_sleep costs
\* strictly less than the tolerance, the scan stops there and accepts it: the
\* call permits and the selected index is that state; costs [10,30,100] us
\* with tolerance 150 us give permit with index 2 for available_sleep 150 us
\* and permit with index 1 for 50 us.
C2_StopAccepts ==
    (DownOkReturned /\ call.qos_ns # 0 /\ AvailPositive(call.mask)) =>
        /\ (DeepestFit >= 0 /\ CallCost(DeepestFit) < CallTolNs)
               => (call.ret = "permit" /\ CallIdx = DeepestFit)
        /\ (CallStates = T3 /\ call.qos_ns = 150
            /\ ClaimAvail(call.mask) = <<0, 0, 150000>>)
               => (call.ret = "permit" /\ CallIdx = 2)
        /\ (CallStates = T3 /\ call.qos_ns = 150
            /\ ClaimAvail(call.mask) = <<0, 0, 50000>>)
               => (call.ret = "permit" /\ CallIdx = 1)

C2_Witness ==
    /\ DownOkReturned
    /\ CallStates = T3 /\ call.qos_ns = 150
    /\ ClaimAvail(call.mask) = <<0, 0, 50000>>
    /\ DeepestFit = 1
    /\ call.ret = "permit" /\ CallIdx = 1

\* C3: a call with latency tolerance 0 vetoes and leaves the selected index
\* at 0, whatever the table, the members, the wakeup times and the index
\* selected before.
C3_ZeroToleranceVetoes ==
    (DownOkReturned /\ call.qos_ns = 0) => (call.ret = "veto" /\ CallIdx = 0)

C3_Witness ==
    /\ DownOkReturned /\ call.qos_ns = 0
    /\ call.prev_idx = 2 /\ CallCount = 3
    /\ call.mask # {} /\ call.mask \subseteq call.online
    /\ call.ret = "veto" /\ CallIdx = 0

\* C4 as claimed: when the earliest next wakeup among the domain's online
\* member CPUs is at or before now (available_sleep zero or negative) the
\* call vetoes and the selected index stays 0.
C4_NonPositiveSleepVetoes ==
    (DownOkReturned /\ ~AvailPositive(CallMembers))
        => (call.ret = "veto" /\ CallIdx = 0)

\* C4: the failing call: the only online member wakes before now, and the
\* call permits power-down with a state selected.
C4_Witness ==
    /\ DownOkReturned /\ call.mask = CallMembers
    /\ CallMembers \cap call.online # {}
    /\ WideLt(ClaimAvail(CallMembers), <<0, 0, 0>>)
    /\ call.qos_ns = 150 /\ CallStates = <<S100>>
    /\ call.ret = "permit" /\ CallIdx = 0

\* C5 as claimed: when no member CPU of the domain is online, a call with
\* non-zero tolerance and a non-empty table permits power-down.
C5_AsClaimed ==
    (DownOkReturned /\ CallMembers \cap call.online = {}
     /\ call.qos_ns # 0 /\ CallCount > 0)
        => call.ret = "permit"

\* C5 amended: a call that finds no online CPU in the member set it iterates
\* computes available_sleep = sentinel - now, which exceeds every state's
\* cost; it vetoes if the tolerance is 0, and with a non-zero tolerance it
\* permits exactly when some state costs strictly less than the tolerance,
\* selecting the deepest such state.
C5_NoOnlineMember ==
    (DownOkReturned /\ call.mask \cap call.online = {}) =>
        LET below == {i \in 0 .. (CallCount - 1) : CallCost(i) < CallTolNs} IN
        /\ call.qos_ns = 0 => call.ret = "veto"
        /\ call.qos_ns # 0 =>
             /\ call.sleep_ns = <<0, 1, 0 - call.now>>
             /\ \A i \in 0 .. (CallCount - 1) : WideLt(<<0, 0, CallCost(i)>>, call.sleep_ns)
             /\ call.ret = "permit" <=> below # {}
             /\ call.ret = "permit" => (CallIdx \in below /\ \A j \in below : j <= CallIdx)

C5_Witness ==
    /\ DownOkReturned /\ call.mask = CallMembers
    /\ CallMembers # {} /\ CallMembers \cap call.online = {}
    /\ call.qos_ns = 20 /\ CallStates = <<S100>>
    /\ call.sleep_ns = <<0, 1, 0 - call.now>>
    /\ call.ret = "veto"

\* C6: a call on a domain whose idle-state table is empty vetoes and the
\* selected index stays 0, for every tolerance and all wakeup times.
C6_EmptyTableVetoes ==
    (DownOkReturned /\ CallCount = 0) => (call.ret = "veto" /\ CallIdx = 0)

C6_Witness ==
    /\ DownOkReturned /\ CallCount = 0
    /\ call.qos_ns # 0 /\ call.at = "scan"
    /\ call.ret = "veto" /\ CallIdx = 0

\* C7: after every call, a veto leaves the selected index 0 and a permit
\* leaves it at the accepted index, which is an index of the table and the
\* deepest state passing the two tests of the scan; the index selected by an
\* earlier call does not survive.
C7_IndexDefinedAfterCall ==
    DownOkReturned =>
        /\ call.ret = "veto" => CallIdx = 0
        /\ call.ret = "permit" =>
             LET ok(j) == /\ ~WideLt(call.sleep_ns, <<0, 0, CallCost(j)>>)
                          /\ CallCost(j) < CallTolNs
             IN /\ CallIdx \in 0 .. (CallCount - 1)
                /\ ok(CallIdx)
                /\ \A j \in (CallIdx + 1) .. (CallCount - 1) : ~ok(j)

C7_Witness ==
    /\ DownOkReturned /\ call.prev_idx = 2
    /\ call.ret = "permit" /\ CallIdx = 1 /\ CallCount = 3

\* the last call was an of_setup_cpu_pd_single call whose cpu_pd_attach_cpu
\* returned 0
AttachSucceeded ==
    call.op = "setup" /\ call.stage = "ok" /\ call.err = 0 /\ call.done

\* the domains reachable from d through parent references, d included
RECURSIVE ClaimUp(_, _)
ClaimUp(d, seen) ==
    IF d = NULL \/ d \in seen THEN seen
    ELSE ClaimUp(cpu_pm_domain[d].parent, seen \cup {d})

\* C8 as claimed: after a successful attach of CPU c to its leaf domain L
\* (the CPU power domain of the genpd resolved for the CPU), c is a member
\* of L and of every domain reachable from L through parent references.
C8_AsClaimed ==
    (AttachSucceeded /\ call.genpd >= 1) =>
        \A d \in ClaimUp(call.genpd, {}) : call.cpu \in cpu_pm_domain[d].cpus

\* C8: the failing call: the attach returned 0 after to_cpu_pd handed back an
\* entry that had been freed while linked, and the leaf domain of the CPU
\* does not have the CPU.
C8_Witness ==
    /\ AttachSucceeded /\ call.genpd >= 1
    /\ call.cpu_pd \in freed /\ call.genpd \notin freed
    /\ call.cpu \notin cpu_pm_domain[call.genpd].cpus

\* C8 where no freed entry is met: after a successful attach that was handed
\* the entry of the resolved genpd, with no freed domain on the parent
\* chain, the CPU is a member of the leaf and of every domain above it.
C8_LiveChain ==
    (AttachSucceeded /\ call.cpu_pd = call.genpd
     /\ ClaimUp(call.cpu_pd, {}) \cap freed = {}) =>
        \A d \in ClaimUp(call.cpu_pd, {}) : call.cpu \in cpu_pm_domain[d].cpus

C8_LiveChainWitness ==
    /\ AttachSucceeded /\ call.cpu_pd = call.genpd
    /\ Cardinality(ClaimUp(call.cpu_pd, {})) = 3
    /\ ClaimUp(call.cpu_pd, {}) \cap freed = {}
    /\ \A d \in ClaimUp(call.cpu_pd, {}) : call.cpu \in cpu_pm_domain[d].cpus

\* the last call was an of_setup_cpu_pd_single call whose genpd_dev_pm_attach
\* reported a failure
AttachFailed == call.op = "setup" /\ call.stage = "attach_fail"

\* C9 as claimed: when the generic attach step fails, the failure is returned
\* and the CPU is nevertheless a member of the leaf domain and of every
\* ancestor.
C9_AsClaimed ==
    AttachFailed =>
        /\ call.err # 0
        /\ \A d \in ClaimUp(call.cpu_pd, {}) : call.cpu \in cpu_pm_domain[d].cpus

\* C9 amended: when the generic attach step fails, the failure is returned
\* and the call changes no member set: every domain that existed before the
\* call has the members it had, and a domain the call created has none.
C9_FailedAttachKeepsMembers ==
    [][(call'.op = "setup" /\ call.op # "setup" /\ call'.stage = "attach_fail") =>
          /\ call'.err # 0
          /\ \A d \in 1 .. Len(cpu_pm_domain') :
               cpu_pm_domain'[d].cpus =
                   IF d <= Len(cpu_pm_domain) THEN cpu_pm_domain[d].cpus ELSE {}]_vars

C9_Witness ==
    /\ AttachFailed /\ call.err # 0
    /\ call.cpu_pd = call.genpd /\ call.cpu_pd \notin freed
    /\ cpu_pm_domain[call.cpu_pd].parent # NULL
    /\ \A d \in ClaimUp(call.cpu_pd, {}) : call.cpu \notin cpu_pm_domain[d].cpus

\* C10: a successful attach of a CPU to a leaf domain it was successfully
\* attached to before leaves the member set of every domain of the registry
\* as it was before this attach.
C10_SecondAttachChangesNothing ==
    [][(call'.op = "setup" /\ call.op # "setup"
        /\ call'.stage = "ok" /\ call'.err = 0 /\ call'.done
        /\ <<call'.cpu, call'.cpu_pd>> \in attached) =>
          /\ Len(cpu_pm_domain') = Len(cpu_pm_domain)
          /\ \A d \in 1 .. Len(cpu_pm_domain) :
               cpu_pm_domain'[d].cpus = cpu_pm_domain[d].cpus]_vars

C10_Witness ==
    /\ AttachSucceeded /\ call.again
    /\ call.cpu_pd = call.genpd /\ call.cpu_pd \notin freed
    /\ cpu_pm_domain[call.cpu_pd].parent # NULL
    /\ \A d \in ClaimUp(call.cpu_pd, {}) : call.cpu \in cpu_pm_domain[d].cpus

\* --------------------------------------------------- claims on the build
\* the last call was an of_setup_cpu_pd_single call
SetupCall == call.op = "setup"

\* the domains the last call created, in the order of creation
CreatedBy == { d \in 1 .. Len(cpu_pm_domain) : d >= call.first }

\* the description node a domain was created for
NodeOf(d) == genpds[d].node

\* the power-domains node of the CPU of the last call
CpuNode == dt.cpu_node[call.cpu]

\* the registry entries that were not freed
LiveEntries == { d \in 1 .. Len(cpu_pm_domain) : d \notin freed }

AllocFaults == {"enomem_genpd", "enomem_name", "enomem_pd", "enomem_cpus"}

\* C11 as claimed: the registry holds at most one domain per description
\* node (freed entries not counted), whatever the outcome of earlier builds.
C11_AsClaimed ==
    \A a \in LiveEntries, b \in LiveEntries : NodeOf(a) = NodeOf(b) => a = b

\* C11: the failing call: a call in which nothing failed resolved the node
\* of its CPU a second time and created a second domain for it, the first
\* one being alive in the registry without a provider.
C11_Witness ==
    /\ SetupCall /\ call.done /\ call.err = 0
    /\ \A n \in Nodes : call.plan[n] = "ok"
    /\ call.genpd = call.first /\ NodeOf(call.first) = CpuNode
    /\ \E d \in LiveEntries : d < call.first /\ NodeOf(d) = CpuNode

\* C14 as claimed: when of_pm_genpd_init rejects the domain created for the
\* node of the CPU, resolve still returns that domain and it stays in the
\* registry, not freed, with the callbacks given.
C14_AsClaimed ==
    (SetupCall /\ call.first <= Len(cpu_pm_domain)
     /\ call.plan[NodeOf(call.first)] = "genpd_init") =>
        /\ call.genpd = call.first
        /\ call.first \notin freed
        /\ cpu_pm_domain[call.first].ops = dt.ops

\* C14 amended: when of_pm_genpd_init rejects a newly created domain the
\* failure is fatal for that domain: the domain is freed, it is neither
\* returned nor advertised as a provider, and when it is the domain of the
\* requested node the call returns the error of of_pm_genpd_init without
\* attaching the CPU.
C14_RegistrationFailureFatal ==
    SetupCall =>
        \A d \in CreatedBy : call.plan[NodeOf(d)] = "genpd_init" =>
            /\ d \in freed
            /\ call.genpd # d
            /\ providers[NodeOf(d)] # d
            /\ d = call.first =>
                 (call.err = EINVAL /\ call.stage = "resolve" /\ call.genpd = NULL)

C14_Witness ==
    /\ SetupCall /\ call.first <= Len(cpu_pm_domain)
    /\ call.plan[NodeOf(call.first)] = "genpd_init"
    /\ call.first \in freed /\ call.err = EINVAL /\ call.stage = "resolve"
    /\ providers[CpuNode] = NULL

\* C15: when of_genpd_add_provider_simple fails for a newly created domain,
\* the domain is in the registry, not freed, with the callbacks given and
\* the idle states and governor installed by of_pm_genpd_init, and when it
\* is the domain of the requested node the resolve returns it.
C15_ProviderFailureNonFatal ==
    SetupCall =>
        \A d \in CreatedBy : call.plan[NodeOf(d)] = "provider" =>
            /\ d \in LiveEntries /\ d \in Governed
            /\ \E i \in 1 .. Len(of_cpu_pd_list) : of_cpu_pd_list[i] = d
            /\ cpu_pm_domain[d].genpd = d
            /\ cpu_pm_domain[d].ops = dt.ops
            /\ genpds[d].states = dt.idle_states[NodeOf(d)]
            /\ (d = call.first /\ call.done) =>
                 (call.genpd = d /\ call.stage # "resolve")

C15_Witness ==
    /\ SetupCall /\ call.done /\ call.first <= Len(cpu_pm_domain)
    /\ call.plan[CpuNode] = "provider" /\ NodeOf(call.first) = CpuNode
    /\ providers[CpuNode] = NULL
    /\ call.genpd = call.first /\ call.stage = "ok" /\ call.err = 0
    /\ cpu_pm_domain[call.first].ops = dt.ops

C17_AsClaimed ==
    (SetupCall /\ \E n \in Nodes : call.plan[n] \in AllocFaults) =>
        /\ call.done
        /\ call.err = ENOMEM
        /\ \A d \in CreatedBy : call.plan[NodeOf(d)] \notin AllocFaults

\* C17: the failing call: the allocation of the generic_pm_domain of the
\* requested node failed and the call did not return.
C17_Witness ==
    /\ SetupCall /\ CpuNode # NoNode /\ call.plan[CpuNode] = "enomem_genpd"
    /\ call.first <= MaxDomains
    /\ ~call.done /\ halted = "oops"
    /\ CreatedBy = {}

\* C17 for the three later allocations of the requested node (name,
\* cpu_pm_domain, cpumask): the call returns -ENOMEM and creates nothing.
C17_LaterAllocations ==
    (SetupCall /\ CpuNode # NoNode
     /\ call.plan[CpuNode] \in AllocFaults \ {"enomem_genpd"}
     /\ call.first <= MaxDomains) =>
        (call.done /\ call.err = ENOMEM /\ CreatedBy = {})

\* C19 as claimed: a call for a CPU whose leaf domain was created outside
\* (the provider lookup returns a genpd that has no cpu_pm_domain) returns
\* an error before cpu_pd_attach_cpu, so nothing is attached.
C19_AsClaimed ==
    (SetupCall /\ call.done /\ call.genpd < 0) =>
        (call.stage = "lookup" /\ call.err = ENOENT)

\* C19: the failing call: the genpd was created outside, to_cpu_pd handed
\* back a freed entry, and the CPU was attached through it.
C19_Witness ==
    /\ SetupCall /\ call.done /\ call.genpd < 0
    /\ call.stage = "ok" /\ call.err = 0
    /\ call.cpu_pd \in freed

\* C19 where the registry holds no freed entry: the call returns -ENOENT at
\* the lookup and attaches nothing.
C19_NoFreedEntry ==
    (SetupCall /\ call.done /\ call.genpd < 0 /\ freed = {}) =>
        (call.stage = "lookup" /\ call.err = ENOENT /\ call.cpu_pd = NULL)

\* ------------------------------------------------- claims on the batch
\* the last call was an of_setup_cpu_pd call that returned
BatchReturned == call.op = "batch" /\ call.done

\* C13 as claimed: when of_setup_cpu_pd_single fails for one CPU, the batch
\* goes on: of_setup_cpu_pd_single is called for every possible CPU, and the
\* failure is reported.
C13_AsClaimed ==
    (BatchReturned /\ call.failed >= 0) => (call.tried = CPUS /\ call.ret # 0)

\* C13 amended: the batch stops at the first CPU whose of_setup_cpu_pd_single
\* fails: that error is returned, of_setup_cpu_pd_single was called for the
\* CPUs up to the failing one and for no later CPU, and no later CPU is
\* added to a member set by the batch.
C13_BatchStopsAtFirstFailure ==
    [][(call'.op = "batch" /\ call.op # "batch" /\ call'.done /\ call'.failed >= 0) =>
          /\ call'.ret # 0
          /\ call'.tried = 0 .. call'.failed
          /\ \A c \in CPUS : c > call'.failed =>
               \A d \in 1 .. Len(cpu_pm_domain') :
                   c \in cpu_pm_domain'[d].cpus =>
                       (d <= Len(cpu_pm_domain) /\ c \in cpu_pm_domain[d].cpus)]_vars

C13_Witness ==
    /\ BatchReturned /\ call.failed = 0 /\ call.ret # 0
    /\ call.tried = {0}
    /\ \A c \in CPUS \ {0} : dt.cpu_node[c] # NoNode /\ dt.available[dt.cpu_node[c]]
    /\ \A d \in 1 .. Len(cpu_pm_domain) : cpu_pm_domain[d].cpus \cap (CPUS \ {0}) = {}

\* ----------------------------------------------- claims on concurrent builds
\* every caller has returned from of_setup_cpu_pd_single
AllReturned == \A t \in Threads : thread[t].pc = "done"

\* C12 as claimed: when concurrent builds have returned, the registry holds
\* one domain per description node, and callers that asked for the same node
\* got the same domain.
C12_AsClaimed ==
    AllReturned =>
        /\ \A a \in LiveEntries, b \in LiveEntries : NodeOf(a) = NodeOf(b) => a = b
        /\ \A t \in Threads, u \in Threads :
             dt.cpu_node[thread[t].cpu] = dt.cpu_node[thread[u].cpu]
                 => thread[t].ret = thread[u].ret

\* C12: the failing run: two callers resolved the same node, both found no
\* provider before either had created the domain, and each created, kept and
\* attached to a domain of its own.
C12_Witness ==
    /\ AllReturned
    /\ dt.cpu_node[thread[1].cpu] = dt.cpu_node[thread[2].cpu]
    /\ thread[1].err = 0 /\ thread[2].err = 0
    /\ thread[1].ret # thread[2].ret
    /\ NodeOf(thread[1].ret) = NodeOf(thread[2].ret)
    /\ {thread[1].ret, thread[2].ret} \subseteq LiveEntries

\* ---------------------------------------------------- claims on power_off
\* the last call was a cpu_pd_power_off call that returned
PowerOffReturned == call.op = "power_off" /\ ~call.oops

\* what the claim expects of the call for the domain d of the genpd: the
\* callback called once with the index the governor selected, the parameter
\* of that state and the members of d, or no call and 0 without a callback
PowerOffAsSpecified(d) ==
    IF cpu_pm_domain[d].ops.power_off # NULL
    THEN /\ call.called
         /\ call.idx = call.sel /\ call.idx = genpds[call.genpd].state_idx
         /\ call.param = genpds[call.genpd].states[call.sel + 1].param
         /\ call.mask = cpu_pm_domain[d].cpus
    ELSE ~call.called /\ call.ret = 0

\* C18 as claimed: power_off calls the domain's platform callback with the
\* index selected by the last power-down-ok call, the parameter of that
\* state and the domain's member CPU set; without a callback it returns 0
\* and calls nothing.
C18_AsClaimed == PowerOffReturned => PowerOffAsSpecified(call.genpd)

\* C18: the failing call: to_cpu_pd handed back a freed entry and the
\* callback was called with a mask that is not the domain's member set.
C18_Witness ==
    /\ PowerOffReturned /\ call.cpu_pd \in freed /\ call.genpd \notin freed
    /\ cpu_pm_domain[call.genpd].ops.power_off # NULL
    /\ call.called /\ call.mask # cpu_pm_domain[call.genpd].cpus

\* C18 where to_cpu_pd returns the entry of the genpd: the call is as claimed.
C18_LiveEntry ==
    (PowerOffReturned /\ call.cpu_pd = call.genpd)
        => PowerOffAsSpecified(call.genpd)

C18_LiveEntryWitness ==
    /\ PowerOffReturned /\ call.cpu_pd = call.genpd
    /\ call.called /\ call.idx = 2 /\ call.param = 9
    /\ call.mask = CPUS

\* C20 as claimed: when the call permits power-down with index i, the total
\* cost of state i does not exceed the time from now to the earliest next
\* wakeup among the domain's online member CPUs.
C20_AsClaimed ==
    (DownOkReturned /\ call.ret = "permit") => FitsWindow(CallIdx, CallMembers)

\* C20: the failing call: every online member wakes before now, the table
\* has three states, and the call permits the deepest one.
C20_Witness ==
    /\ DownOkReturned /\ call.ret = "permit"
    /\ call.mask = CallMembers /\ CallMembers = CPUS /\ call.online = CPUS
    /\ CallStates = T3 /\ CallIdx = 2
    /\ \A c \in CPUS : WideLt(call.wake[c], <<0, 0, call.now>>)

\* C20 where the earliest wakeup is not before now and the call read the
\* domain's own mask: the permitted state fits the window.
C20_WindowNotNegative ==
    (DownOkReturned /\ call.ret = "permit" /\ call.mask = CallMembers
     /\ ~WideLt(ClaimAvail(CallMembers), <<0, 0, 0>>))
        => FitsWindow(CallIdx, CallMembers)

\* ------------------------------------------- claims on the earliest wakeup
\* what a cpu_pd_down_ok call with the inputs of the last call, the member
\* set `members` and the wakeup times `wake` decides
ClaimVerdict(members, wake) ==
    cpu_pd_down_ok([genpds[call.genpd] EXCEPT !.state_idx = call.prev_idx],
                   members, call.qos_ns, call.now, wake, call.online)

\* wakeup times that differ from those of the last call only for CPUs that
\* are offline or not in `members`
SameForOnline(members) ==
    { wake \in [CPUS -> WakeTimes] :
        \A c \in members \cap call.online : wake[c] = call.wake[c] }

\* the window the claim expects: the earliest wakeup over exactly the online
\* CPUs of `members`, minus now, as the code stores it
ClaimWindow(members) == ToU64(ClaimAvail(members))

\* C21 as claimed: the earliest wakeup of a call is the minimum next wakeup
\* over exactly the CPUs that are members of the evaluated domain and
\* online, and another wakeup time for an offline CPU or for a CPU that is
\* not a member gives the same decision and the same selected index.
C21_AsClaimed ==
    DownOkReturned =>
        /\ call.qos_ns # 0 => call.sleep_ns = ClaimWindow(CallMembers)
        /\ \A wake \in SameForOnline(CallMembers) :
             LET r == ClaimVerdict(call.mask, wake)
             IN r.ret = call.ret /\ r.state_idx = CallIdx

\* C21: the failing call: to_cpu_pd handed back a freed entry, the mask read
\* from it holds a CPU that is not a member of the domain, and the wakeup of
\* that CPU set the window.
C21_Witness ==
    /\ DownOkReturned /\ call.qos_ns # 0
    /\ call.cpu_pd \in freed /\ call.genpd \notin freed
    /\ CallMembers = {0} /\ call.mask = {1} /\ call.online = CPUS
    /\ call.sleep_ns = <<0, 0, call.wake[1][3] - call.now>>
    /\ call.sleep_ns # ClaimWindow(CallMembers)

\* C21 where to_cpu_pd returns the entry of the genpd: the window is the
\* earliest wakeup over the online members minus now, and the wakeup times of
\* the other CPUs have no influence on the decision or the index.
C21_OwnEntry ==
    (DownOkReturned /\ call.cpu_pd = call.genpd) =>
        /\ call.mask = CallMembers
        /\ call.qos_ns # 0 => call.sleep_ns = ClaimWindow(CallMembers)
        /\ \A wake \in SameForOnline(CallMembers) :
             LET r == ClaimVerdict(CallMembers, wake)
             IN r.ret = call.ret /\ r.state_idx = CallIdx

C21_OwnEntryWitness ==
    /\ DownOkReturned /\ call.cpu_pd = call.genpd /\ call.qos_ns = 150
    /\ CallMembers = {0} /\ call.online = {0}
    /\ call.wake[0] = <<0, 0, 250000>> /\ call.wake[1] = <<0, 0, 100000>>
    /\ call.now = 100000 /\ call.sleep_ns = <<0, 0, 150000>>
    /\ call.ret = "permit"

\* ------------------------------------------ claims on the parent relation
\* the internal parent reference of a registry domain
ParentOf(d) == cpu_pm_domain[d].parent

\* the member set of a registry domain
Members(d) == cpu_pm_domain[d].cpus

\* C22 as claimed: when the resolve and attach operations have completed,
\* the member set of every registry domain that has a parent reference is a
\* subset of the member set of that parent.
C22_AsClaimed ==
    AllReturned =>
        \A d \in LiveEntries : ParentOf(d) # NULL => Members(d) \subseteq Members(ParentOf(d))

\* C22: the failing run: nothing failed; one caller created the domain of a
\* node and advertised it, a second caller found it through the provider
\* lookup and attached its CPU while the domain had no parent reference yet,
\* then the first caller set the parent reference.
C22_Witness ==
    /\ AllReturned /\ freed = {}
    /\ \A t \in Threads : thread[t].err = 0
    /\ \E t \in Threads :
         LET d == thread[t].ret IN
         /\ d \in LiveEntries /\ ParentOf(d) # NULL
         /\ thread[t].cpu \in Members(d)
         /\ thread[t].cpu \notin Members(ParentOf(d))
         /\ Members(ParentOf(d)) # {}

\* C22 for calls that run one after the other: after every call that
\* returned, the member set of every registry domain that was not freed is
\* a subset of the member set of its parent.
C22_OneCallAtATime ==
    (halted = "run") =>
        \A d \in LiveEntries : ParentOf(d) # NULL => Members(d) \subseteq Members(ParentOf(d))

C22_OneCallAtATimeWitness ==
    /\ AttachSucceeded /\ call.cpu_pd = call.genpd /\ call.cpu_pd \notin freed
    /\ ParentOf(call.cpu_pd) # NULL /\ ParentOf(call.cpu_pd) \notin freed
    /\ Members(call.cpu_pd) = CPUS /\ Members(ParentOf(call.cpu_pd)) = CPUS

\* ---------------------------------------------- claims on the registry list
\* the domains reachable from the head of of_cpu_pd_list
Listed == { of_cpu_pd_list[i] : i \in 1 .. Len(of_cpu_pd_list) }

\* C23 as claimed: every entry reachable from the registry list refers to a
\* domain that is still allocated, also after of_init_cpu_pm_domain took its
\* failure path with the entry inserted.
C23_AsClaimed == Listed \cap freed = {}

\* C23: the failing call: of_pm_genpd_init rejected the domain created for
\* the node of the CPU; the call returned the error, the domain was freed
\* and its entry is the head of the list, in front of an older entry.
C23_Witness ==
    /\ SetupCall /\ call.done /\ call.err = EINVAL
    /\ Len(of_cpu_pd_list) >= 2
    /\ Head(of_cpu_pd_list) = call.first /\ call.first \in freed
    /\ call.plan[NodeOf(call.first)] = "genpd_init"

\* C23, the extent of the defect: entries never leave the list, and only a
\* call in which of_pm_genpd_init fails frees a domain.
C23_OnlyRegistrationFailureFrees ==
    [][(call'.op = "setup" /\ call.op # "setup") =>
          /\ Listed \subseteq { of_cpu_pd_list'[i] : i \in 1 .. Len(of_cpu_pd_list') }
          /\ freed \subseteq freed'
          /\ (\A n \in Nodes : call'.plan[n] # "genpd_init") => freed' = freed]_vars

\* ------------------------------------- claims on the readers and the lock
\* a to_cpu_pd lookup of the PM core is under way or has just ended
Reading == call.op \in {"to_cpu_pd", "found", "down_ok"}

\* C24: an entry becomes reachable from the list with its genpd reference,
\* its callbacks and its empty member set already set, a lookup that runs
\* during the insertion never reads an entry whose creator has not yet set
\* all its fields, and every listed entry has the genpd and the callbacks it
\* was created with.
C24_PublishAfterInitialise ==
    /\ [](Reading => ~call.torn)
    /\ [](\A d \in Listed : cpu_pm_domain[d].genpd = d /\ cpu_pm_domain[d].ops = dt.ops)
    /\ [][\A d \in { of_cpu_pd_list'[i] : i \in 1 .. Len(of_cpu_pd_list') } \ Listed :
            /\ \A t \in Threads :
                 (thread[t].pc \in InitSteps /\ thread[t].id = d) => thread[t].set = PdFields
            /\ cpu_pm_domain'[d].genpd = d
            /\ cpu_pm_domain'[d].ops = dt.ops
            /\ cpu_pm_domain'[d].cpus = {}]_vars

\* a lookup that went on while a caller held the mutex at every step read
\* the entry that caller had just inserted, complete, and another lookup
\* that started before the insertion did not see the entry
C24_Witness ==
    /\ call.op = "to_cpu_pd" /\ call.held /\ ~call.torn
    /\ \E t \in Threads :
         /\ thread[t].pc = "unlock"
         /\ thread[t].id \in call.visited
         /\ cpu_pm_domain[thread[t].id].ops = PlatformOps

C24_WitnessNotSeen ==
    /\ call.op = "found" /\ ~call.torn
    /\ \E d \in Listed : d \notin call.visited /\ d > Head(call.rest)

\* caller t is inside the loop of cpu_pd_attach_cpu
Walking(t) == thread[t].pc = "walk"

\* C25 as claimed: a caller holds cpu_pd_list_lock while it is in the walk
\* of cpu_pd_attach_cpu, and no step of another caller inserts an entry in
\* the registry list while a walk is under way.
C25_AsClaimed ==
    /\ [](\A t \in Threads : Walking(t) => cpu_pd_list_lock = t)
    /\ [][(\E t \in Threads : Walking(t) /\ thread'[t].pc = "walk")
             => of_cpu_pd_list' = of_cpu_pd_list]_vars

\* C25: the failing run: one caller has set its CPU in the leaf domain and
\* has ancestors left to visit, and the other caller holds the mutex and is
\* at list_add_rcu.
C25_Witness ==
    \E t \in Threads, u \in Threads :
        /\ Walking(t)
        /\ thread[t].at # NULL /\ thread[t].at # thread[t].leaf
        /\ thread[t].cpu \in Members(thread[t].leaf)
        /\ thread[u].pc = "list_add" /\ cpu_pd_list_lock = u

\* caller t found no provider for its node and has not completed the
\* creation of the domain (lines 300 and 230-273)
InBuild(t) == thread[t].pc = "init" \/ thread[t].pc \in InitSteps

\* C26 as claimed: two callers are never both between their lookup of an
\* existing domain and the completion of their domain creation.
C26_AsClaimed ==
    \A t \in Threads, u \in Threads : (InBuild(t) /\ InBuild(u)) => t = u

\* C26: the failing run: both callers found no provider for the same node;
\* one has inserted its domain and is at of_pm_genpd_init, the other holds
\* the mutex and is about to insert a second domain for that node.
C26_Witness ==
    \E t \in Threads, u \in Threads :
        /\ thread[t].pc = "genpd_init" /\ thread[u].pc = "list_add"
        /\ thread[t].node = thread[u].node
        /\ thread[t].id # thread[u].id
        /\ thread[t].id \in Listed /\ thread[u].id \notin Listed
        /\ providers[thread[t].node] = NULL

\* C26, what the mutex does serialise: at most one caller is between
\* mutex_lock and mutex_unlock, the statement in between being list_add_rcu.
C26_OnlyInsertionSerialised ==
    \A t \in Threads, u \in Threads :
        (thread[t].pc \in LockedSteps /\ thread[u].pc \in LockedSteps) => t = u

\* C27: every step of a cpu_pd_down_ok call (the lookup entry by entry and
\* the evaluation) leaves the registry list, every cpu_pm_domain (genpd,
\* parent, member set, callbacks), the providers, the subdomain links, the
\* callers and the mutex as they were, and of the genpds changes nothing but
\* the selected-state index of the evaluated one; the call needs no step of
\* a caller that holds the mutex.
C27_DownOkWritesOnlyIndex ==
    [][(call' # call /\ call'.op \in {"to_cpu_pd", "found", "down_ok"}) =>
          /\ UNCHANGED <<dt, providers, of_cpu_pd_list, cpu_pm_domain, freed,
                         links, thread, attached>>
          /\ cpu_pd_list_lock' = cpu_pd_list_lock
          /\ Len(genpds') = Len(genpds)
          /\ \A g \in 1 .. Len(genpds) :
               /\ genpds'[g].states = genpds[g].states
               /\ genpds'[g].node = genpds[g].node
               /\ g # call'.genpd => genpds'[g] = genpds[g]]_vars

\* a call that began, looked its domain up and permitted power-down with a
\* state deeper than 0, a caller holding the mutex all the while, and
\* another genpd keeping the index it had
C27_Witness ==
    /\ call.op = "down_ok" /\ call.held
    /\ cpu_pd_list_lock # 0
    /\ call.ret = "permit" /\ call.prev_idx = 0
    /\ genpds[call.genpd].state_idx = 2
    /\ \E g \in 1 .. Len(genpds) : g # call.genpd /\ genpds[g].state_idx = 1

\* ------------------------------------ claims on the parent reference
\* the node the description gives as parent of the node of domain d
ParentNode(d) == dt.parent[NodeOf(d)]

\* the domain d was created for a node whose parent node is provided by
\* another subsystem (a generic, non CPU domain)
ParentIsExternal(d) == ParentNode(d) # NoNode /\ ParentNode(d) \in dt.ext

\* what the claim says of the domains in `ds`: the parent reference is empty
\* or a registry domain, and a domain whose resolved parent is a non CPU
\* domain has an empty parent reference; and of the domains the last call
\* created below a non CPU domain: linked as its sub-domain, and returned
\* when it is the domain of the requested node
ParentsAsClaimed(ds) ==
    /\ \A d \in ds :
         /\ ParentOf(d) = NULL \/ ParentOf(d) \in Listed \ freed
         /\ ParentIsExternal(d) => ParentOf(d) = NULL
    /\ (SetupCall /\ call.done) =>
         \A d \in CreatedBy \cap ds :
             (ParentIsExternal(d) /\ call.plan[NodeOf(d)] \in {"ok", "provider"}) =>
                 /\ <<d, ExtGenpd(ParentNode(d))>> \in links
                 /\ d = call.first => call.genpd = d

\* C28 as claimed: each registry domain's parent reference is empty or
\* refers to a domain of the registry; a domain whose resolved parent is a
\* non CPU domain is linked as its sub-domain and returned, and its parent
\* reference stays empty.
C28_AsClaimed == ParentsAsClaimed(LiveEntries)

\* C28: the failing call: the parent of the new domain is a non CPU domain,
\* to_cpu_pd(parent) handed back a freed entry, and the call returned with
\* the parent reference of the new domain pointing at the freed entry.
C28_Witness ==
    /\ SetupCall /\ call.done /\ call.err = 0
    /\ \E d \in CreatedBy \ freed :
         /\ ParentIsExternal(d)
         /\ <<d, ExtGenpd(ParentNode(d))>> \in links
         /\ ParentOf(d) \in freed

\* C28 where the registry holds no freed entry: the statement holds.
C28_NoFreedEntry == (freed = {}) => ParentsAsClaimed(LiveEntries)

C28_NoFreedEntryWitness ==
    /\ SetupCall /\ call.done /\ call.err = 0 /\ freed = {}
    /\ call.genpd = call.first
    /\ Cardinality(CreatedBy) = 2
    /\ \E d \in CreatedBy :
         /\ ParentIsExternal(d) /\ ParentOf(d) = NULL
         /\ <<d, ExtGenpd(ParentNode(d))>> \in links
         /\ ParentOf(call.first) = d

\* ------------------------------------------------ claims on termination
\* the domain d is its own ancestor through parent references
OwnAncestor(d) == d \in ClaimUp(ParentOf(d), {})

\* the parent relation of the description leads from node n back to n
RECURSIVE NodeUp(_, _)
NodeUp(n, seen) ==
    IF n = NoNode \/ n \in seen THEN seen
    ELSE NodeUp(dt.parent[n], seen \cup {n})

CyclicDescription == \E n \in Nodes : n \in NodeUp(dt.parent[n], {})

\* C29 as claimed: for every description the parent references form no
\* cycle, and the walk of cpu_pd_attach_cpu ends.
C29_AsClaimed ==
    /\ \A d \in 1 .. Len(cpu_pm_domain) : ~OwnAncestor(d)
    /\ halted # "hang"

\* C29: the failing call: nothing failed and no entry was freed; the two
\* domains created by the call are each other's parent and the walk of
\* cpu_pd_attach_cpu goes round without end.
C29_Witness ==
    /\ SetupCall /\ ~call.done /\ halted = "hang"
    /\ freed = {} /\ \A n \in Nodes : call.plan[n] = "ok"
    /\ Cardinality(CreatedBy) = 2
    /\ \A d \in CreatedBy : OwnAncestor(d) /\ ParentOf(d) # d /\ call.cpu \in Members(d)

\* C29 for descriptions whose parent relation has no cycle, the registry
\* holding no freed entry: no domain is its own ancestor and no walk goes on
\* without end.
C29_AcyclicDescription ==
    (~CyclicDescription /\ freed = {}) =>
        /\ \A d \in 1 .. Len(cpu_pm_domain) : ~OwnAncestor(d)
        /\ halted # "hang"

C29_AcyclicDescriptionWitness ==
    /\ ~CyclicDescription /\ AttachSucceeded /\ freed = {}
    /\ Cardinality(ClaimUp(call.cpu_pd, {})) = 3
    /\ \A d \in ClaimUp(call.cpu_pd, {}) : call.cpu \in Members(d) /\ ~OwnAncestor(d)

====
